---- MODULE Spec2Model ----
(***************************************************************************)
(* Model of the test-run engine of demo.py: one channel's ChannelPanel     *)
(* (GUI thread), its TestWorker (worker thread), the queued signals        *)
(* between them and the device answering the worker's requests.            *)
(*                                                                         *)
(* Wavelengths are integers in units of 1/30 nm, so that one decimal place *)
(* is 3 units and a device bound may lie off the 0.1 nm grid.  Wall-clock  *)
(* time (sleeps, durations) is not modelled: a sleep is a step.            *)
(***************************************************************************)
EXTENDS Integers, Sequences, FiniteSets, TLC

\* Python's None, for the optional numbers of the program (all others are >= 0).
None == -1

\* Units per 0.1 nm and per nm: round(x, 1) and int(x) work on these grids.
Tenth == 3
Nm == 30

\* range(10) of the activation loop, range(120) of the completion loop.
ActivationPolls == 10
CompletionPolls == 120

\* _measure_power_curve: the span (nm) below which only the midpoint is sampled,
\* and the step (nm) of the grid of sample points.
CurveSpan == 10
CurveStep == 10

\* Bound of the model: the largest cycle budget tried, and the number of attempts
\* an unbounded run is followed for.
MaxCycles == 2

\* DEFAULT_PARAMS["wait_time"] (s)
WaitTime == 3

\* Bound of the model: the number of iterations the status loop is followed for.
MaxTicks == 3

VARIABLES
    device_range,            \* MainWindow.device_ranges[ch]: <<min, max>> or <<None, None>>
    params,                  \* MainWindow.config[ch]
    requested,               \* history: <<test_min, test_max>> of the configuration file,
                             \* before _initialize_channel_params
    has_worker,              \* ChannelPanel.worker is not None
    aborted,                 \* ChannelPanel.aborted
    needs_reset_next_start,  \* ChannelPanel.needs_reset_next_start
    success_count,           \* ChannelPanel.success_count
    fail_count,              \* ChannelPanel.fail_count
    total_time,              \* ChannelPanel.total_time (s)
    avg_label,               \* number shown by ChannelPanel.avg_label, in tenths of a second
    rate_label,              \* number shown by ChannelPanel.rate_label, in tenths of a percent
    dur_sum,                 \* sum(ChannelPanel.durations); len(durations) is
                             \* success_count + fail_count
    latest_eta,              \* ChannelPanel.latest_eta
    status,                  \* text of ChannelPanel.status_pill
    is_test_completed,       \* ChannelPanel.is_test_completed
    total_cycles,            \* ChannelPanel.total_cycles
    progress,                \* value of ChannelPanel.progress_bar
    running,                 \* TestWorker.running
    cycles,                  \* TestWorker.cycles
    measure_power_curve,     \* TestWorker.measure_power_curve
    range_min, range_max,    \* TestWorker.range_min, range_max
    device_min, device_max,  \* TestWorker.device_min, device_max
    attempts,                \* local of TestWorker.run
    test_results,            \* TestWorker.test_results, each entry by its wl_success
    fail_log,                \* number of failure lines appended to TestWorker.fail_log_file
    power_curve_data,        \* TestWorker.power_curve_data
    curve_log,               \* history: for each sample point attempted, its wavelength,
                             \* what the attempt returned and the power read (None when
                             \* the power query was not made or gave no reading)
    pc,                      \* where the worker thread is
    phase,                   \* caller of _perform_wavelength_attempt: "random" or "curve"
    wl,                      \* local wl of run / _measure_power_curve
    polls,                   \* iterations of the current polling loop already done
    att_success,             \* value returned by _perform_wavelength_attempt
    wls,                     \* local wls of _measure_power_curve
    idx,                     \* position of the for loop over wls
    active_started,          \* local active_started of _perform_wavelength_attempt
    conn_lost,               \* the worker's last step emitted connection_lost
    queue,                   \* signals emitted by the worker, not yet delivered to the panel
    comp_sent,               \* history: this attempt sent a completion-phase poll
    ended,                   \* history: how the attempt returned, "none" until it does:
                             \* "put" (command lost), "act_stop" / "comp_stop" (loop left
                             \* on a stop), "act_budget" / "comp_budget" (iterations used
                             \* up), or the WavelengthSettingState of the poll that
                             \* reported the flag cleared
    stop_at,                 \* history: len(test_results) when stop or reset was requested
                             \* since the last start, None when it was not
    last_req,                \* history: the last request handled by the panel and what
                             \* became of it
    probe_running,           \* StatusWorker.running
    probe_pc,                \* where the status thread is
    status_response,         \* local status_response of StatusWorker.run
    connected,               \* local connected of StatusWorker.run
    mode,                    \* local mode of StatusWorker.run
    published,               \* the (connected, mode) tuples emitted on status_update
    ticks                    \* iterations of the loop of StatusWorker.run begun

configVars == <<device_range, params, requested>>
panelVars == <<has_worker, aborted, needs_reset_next_start, success_count, fail_count,
               status, is_test_completed, total_cycles, progress>>
statVars == <<total_time, avg_label, rate_label, dur_sum>>
workerFields == <<cycles, measure_power_curve, range_min, range_max, device_min, device_max>>
runVars == <<attempts, test_results, fail_log, power_curve_data, curve_log>>
attemptVars == <<wl, polls, att_success, active_started, comp_sent, ended>>
curveVars == <<phase, wls, idx>>
programVars == <<configVars, panelVars, statVars, workerFields, runVars, attemptVars, curveVars,
                 running, pc, conn_lost, queue, stop_at, latest_eta>>
probeVars == <<probe_running, probe_pc, status_response, connected, mode, published, ticks>>
vars == <<programVars, last_req, probeVars>>

----------------------------------------------------------------------------
\* Pure helpers

Min(a, b) == IF a <= b THEN a ELSE b
Max(a, b) == IF a >= b THEN a ELSE b

\* round(x, 1): the nearest multiple of 0.1 nm (no ties on this grid).
Round1(x) == ((x + (Tenth \div 2)) \div Tenth) * Tenth

\* int(x) for x >= 0, in nm.
IntNm(x) == x \div Nm

\* Variant of Clamp without the final safety bound.
Clamp_Missing(x, lo, hi) == x

\* min(max(wl, device_min), device_max)
Clamp(x, lo, hi) == Min(Max(x, lo), hi)

\* Variant of InitializeChannelParams that keeps a degenerate clamped interval.
InitializeChannelParams_KeepDegenerate(p, dr) ==
    IF dr[1] = None \/ dr[2] = None THEN p
    ELSE LET q == IF p.test_min = None \/ p.test_max = None
                  THEN [p EXCEPT !.test_min = dr[1], !.test_max = dr[2]]
                  ELSE p
         IN  [q EXCEPT !.test_min = Max(q.test_min, dr[1]), !.test_max = Min(q.test_max, dr[2])]

\* Variant of InitializeChannelParams that leaves the requested interval as it is.
InitializeChannelParams_Unclamped(p, dr) == p

\* MainWindow._initialize_channel_params
InitializeChannelParams(p, dr) ==
    IF dr[1] = None \/ dr[2] = None THEN p
    ELSE LET q == IF p.test_min = None \/ p.test_max = None
                  THEN [p EXCEPT !.test_min = dr[1], !.test_max = dr[2]]
                  ELSE p
             lo == Max(q.test_min, dr[1])
             hi == Min(q.test_max, dr[2])
         IN  IF lo >= hi
             THEN [q EXCEPT !.test_min = dr[1], !.test_max = dr[2]]
             ELSE [q EXCEPT !.test_min = lo, !.test_max = hi]

\* ChannelPanel.on_start, the resolution of the test range (device range known)
StartParams(p, dr) ==
    IF p.test_min = None \/ p.test_max = None
    THEN [p EXCEPT !.test_min = dr[1], !.test_max = dr[2]]
    ELSE LET lo == Max(p.test_min, dr[1])
             hi == Min(p.test_max, dr[2])
         IN  IF lo >= hi
             THEN [p EXCEPT !.test_min = dr[1], !.test_max = dr[2]]
             ELSE [p EXCEPT !.test_min = lo, !.test_max = hi]

\* TestWorker.__init__: self.cycles
WorkerCycles(c) == IF c = None \/ c <= 0 THEN None ELSE c

\* TestWorker.__init__: <<self.range_min, self.range_max>>
WorkerRange(tmin, tmax, dr) ==
    IF dr[1] = None \/ dr[2] = None THEN <<None, None>>
    ELSE LET both == IF tmin = None \/ tmax = None THEN dr ELSE <<tmin, tmax>>
             lo == Max(both[1], dr[1])
             hi == Min(both[2], dr[2])
         IN  IF lo >= hi THEN dr ELSE <<lo, hi>>

\* ChannelPanel.on_start: self.total_cycles
TotalCycles(c) == IF c # None /\ c > 0 THEN c ELSE None

\* QThread.isRunning() of the panel's worker
IsRunning == has_worker /\ pc # "done"

\* The values random.uniform(range_min, range_max) is followed for: both ends
\* and the middle of the interval.
Draws(lo, hi) == {lo, (lo + hi) \div 2, hi}

\* _measure_power_curve: the sample points wls (nm)
RECURSIVE Grid(_, _)
Grid(from, to) == IF from > to THEN <<>> ELSE <<from>> \o Grid(from + CurveStep, to)

\* Variant of SamplePointsNm that rounds the midpoint to the nearest integer.
SamplePointsNm_Rounded(lo, hi) ==
    IF hi - lo < CurveSpan * Nm
    THEN <<IntNm(((lo + hi) \div 2) + (Nm \div 2))>>
    ELSE LET g == Grid(IntNm(lo), IntNm(hi))
         IN  IF g[Len(g)] < IntNm(hi) THEN Append(g, IntNm(hi)) ELSE g

SamplePointsNm(lo, hi) ==
    IF hi - lo < CurveSpan * Nm
    THEN <<IntNm((lo + hi) \div 2)>>
    ELSE LET g == Grid(IntNm(lo), IntNm(hi))
         IN  IF g[Len(g)] < IntNm(hi) THEN Append(g, IntNm(hi)) ELSE g

\* The same points in the units of the model.
SamplePoints(lo, hi) == [k \in 1..Len(SamplePointsNm(lo, hi)) |-> SamplePointsNm(lo, hi)[k] * Nm]

\* Signals of TestWorker connected to the panel (on_start)
Signal(t, s, dur, k, tot, d) ==
    [type |-> t, success |-> s, duration |-> dur, current |-> k, total |-> tot, data |-> d]
UpdateStatus(s, dur) == Signal("update_status", s, dur, 0, 0, <<>>)
ProgressUpdate(k, tot) == Signal("progress_update", FALSE, 0, k, tot, <<>>)
Finished == Signal("finished", FALSE, 0, 0, 0, <<>>)
PowerCurveFinished(d) == Signal("power_curve_finished", FALSE, 0, 0, 0, d)

\* The durations (s) an attempt is followed for.
Durations == {1, 2}

\* A number shown by a label, and the outcome of a division by zero
Shown(v) == [defined |-> TRUE, value |-> v]
ZeroDivision == [defined |-> FALSE, value |-> 0]

\* num / den formatted with one decimal place (":.1f"), in tenths
Quotient(num, den) ==
    IF den = 0 THEN ZeroDivision ELSE Shown((((num * 100) \div den) + 5) \div 10)

\* Variant of Average that tests the number of attempts instead of the successes.
Average_GuardedByAttempts(t, ok, n) == IF n # 0 THEN Quotient(t, ok) ELSE Shown(0)

\* on_result: avg = total_time / success_count if success_count else 0.0
Average(t, ok, n) == IF ok # 0 THEN Quotient(t, ok) ELSE Shown(0)

\* on_result: rate = success_count / attempts_done * 100 if attempts_done else 0
Rate(ok, n) == IF n # 0 THEN Quotient(ok * 100, n) ELSE Shown(0)

\* The values of latest_eta: "∞", "0s", "-" and a time, by its whole seconds
EtaUnbounded == [kind |-> "unbounded", seconds |-> 0]
EtaZero == [kind |-> "zero", seconds |-> 0]
EtaUnknown == [kind |-> "unknown", seconds |-> 0]
EtaTime(sec) == [kind |-> "time", seconds |-> sec]

\* remaining * (sum / n + wait + 3), in whole seconds
Estimate(remaining, sum, n, wait) == (remaining * (sum + n * (wait + 3))) \div n

\* ChannelPanel._update_eta
UpdateEta(total, ok, failed, sum, wait) ==
    IF total = None THEN EtaUnbounded
    ELSE IF total - (ok + failed) <= 0 THEN EtaZero
    ELSE IF ok + failed = 0 THEN EtaUnknown
    ELSE EtaTime(Estimate(total - (ok + failed), sum, ok + failed, wait))

\* Answers of the device.  A request that fails, times out or is malformed is
\* "no response" (safe_get_json / safe_put_json return None).
NoResponse == [answered |-> FALSE, active |-> "absent", state |-> "absent"]
StatusResponses ==
    {NoResponse} \cup [answered : {TRUE}, active : {"true", "false", "absent"},
                       state : {"Success", "Failed", "absent"}]
PutResponses == {"none", "json"}
PowerResponses == {None, 7}

\* What safe_get_json returns to StatusWorker.run: None, a JSON value that is not
\* an object, or an object by its "OK" and "Mode" members.  A "Mode" member is a
\* string ("Tunable") or some other JSON value ("not_string").
NoReply == [kind |-> "none", ok |-> "absent", mode |-> "absent"]
ProbeAnswers ==
    {NoReply, [kind |-> "not_object", ok |-> "absent", mode |-> "absent"]}
    \cup [kind : {"object"}, ok : {"true", "false", "absent"},
          mode : {"Tunable", "not_string", "absent"}]

----------------------------------------------------------------------------
\* Configurations the runs are started from

\* Device ranges: unknown, narrower than 10 nm, wider than 10 nm; both known ones
\* have bounds off the 0.1 nm grid.
UnknownRange == <<None, None>>
NarrowRange == <<301, 452>>
WideRange == <<301, 650>>

Params(tmin, tmax, c, m) ==
    [test_min |-> tmin, test_max |-> tmax, cycles |-> c, measure_power_curve |-> m]

\* <<device range, parameters of the configuration file>>
Configs ==
    { <<UnknownRange, Params(None, 420, 1, FALSE)>>,
      <<NarrowRange, Params(330, 420, 1, FALSE)>>,
      <<NarrowRange, Params(330, 420, MaxCycles, FALSE)>>,
      <<NarrowRange, Params(None, None, MaxCycles, TRUE)>>,
      <<NarrowRange, Params(0, 2000, 1, TRUE)>>,
      <<NarrowRange, Params(330, None, None, TRUE)>>,
      <<WideRange, Params(420, 330, 0, FALSE)>>,
      <<WideRange, Params(None, 420, 1, TRUE)>> }

\* ChannelPanel.__init__ / refresh_param_summary: the status shown for the device range
IdleStatus == IF device_range[1] # None THEN "Standby" ELSE "Range Unknown"

\* StatusWorker.__init__ and its start by MainWindow.__init__
ProbeInit ==
    /\ probe_running = TRUE
    /\ probe_pc = "loop"
    /\ status_response = NoReply
    /\ connected = FALSE
    /\ mode = "Unknown"
    /\ published = <<>>
    /\ ticks = 0

Init ==
    /\ ProbeInit
    /\ \E c \in Configs :
          /\ device_range = c[1]
          /\ params = InitializeChannelParams(c[2], c[1])
          /\ requested = <<c[2].test_min, c[2].test_max>>
    /\ has_worker = FALSE
    /\ aborted = FALSE
    /\ needs_reset_next_start = FALSE
    /\ success_count = 0
    /\ fail_count = 0
    /\ total_time = 0
    /\ avg_label = Shown(0)
    /\ rate_label = Shown(0)
    /\ dur_sum = 0
    /\ latest_eta = EtaUnknown
    /\ status = IdleStatus
    /\ is_test_completed = FALSE
    /\ total_cycles = None
    /\ progress = 0
    /\ running = FALSE
    /\ cycles = None
    /\ measure_power_curve = FALSE
    /\ range_min = None
    /\ range_max = None
    /\ device_min = None
    /\ device_max = None
    /\ attempts = 0
    /\ test_results = <<>>
    /\ fail_log = 0
    /\ power_curve_data = <<>>
    /\ curve_log = <<>>
    /\ pc = "done"
    /\ phase = "random"
    /\ wl = None
    /\ polls = 0
    /\ att_success = FALSE
    /\ wls = <<>>
    /\ idx = 0
    /\ active_started = FALSE
    /\ conn_lost = FALSE
    /\ queue = <<>>
    /\ comp_sent = FALSE
    /\ ended = "none"
    /\ stop_at = None
    /\ last_req = "none"

----------------------------------------------------------------------------
\* ChannelPanel (GUI thread)

\* ChannelPanel._clear_statistics
ClearStatistics ==
    /\ success_count' = 0
    /\ fail_count' = 0
    /\ total_time' = 0
    /\ avg_label' = Shown(0)
    /\ rate_label' = Shown(0)
    /\ dur_sum' = 0
    /\ is_test_completed' = FALSE

\* Variant of StartAllowed without the test of the previous worker.
StartAllowed_Always == TRUE

\* ChannelPanel.on_start: "if self.worker and self.worker.isRunning(): return"
StartAllowed == ~IsRunning

\* Variant of StartRefused without the test of the device range.
StartRefused_Never(dr) == FALSE

\* ChannelPanel.on_start: "if device_min is None or device_max is None: ... return"
StartRefused(dr) == dr[1] = None \/ dr[2] = None

\* ChannelPanel.on_start.  Replacing self.worker releases the previous worker:
\* its emissions still queued are not delivered to the panel.
OnStart ==
    /\ IF ~StartAllowed
       THEN UNCHANGED vars
       ELSE
          IF StartRefused(device_range)
          THEN /\ status' = "Range Unknown"
               /\ last_req' = "start_refused"
               /\ UNCHANGED <<configVars, has_worker, aborted, needs_reset_next_start,
                              success_count, fail_count, statVars, is_test_completed,
                              total_cycles, progress, workerFields, runVars, attemptVars, curveVars,
                              running, pc, conn_lost, queue, stop_at, latest_eta>>
          ELSE LET p == StartParams(params, device_range)
                   r == WorkerRange(p.test_min, p.test_max, device_range)
               IN  /\ params' = p
                   /\ IF needs_reset_next_start \/ success_count # 0 \/ fail_count # 0
                      THEN ClearStatistics
                      ELSE UNCHANGED <<success_count, fail_count, statVars, is_test_completed>>
                   /\ needs_reset_next_start' = FALSE
                   /\ aborted' = FALSE
                   /\ has_worker' = TRUE
                   /\ running' = FALSE
                   /\ cycles' = WorkerCycles(p.cycles)
                   /\ measure_power_curve' = p.measure_power_curve
                   /\ range_min' = r[1]
                   /\ range_max' = r[2]
                   /\ device_min' = device_range[1]
                   /\ device_max' = device_range[2]
                   /\ test_results' = <<>>
                   /\ power_curve_data' = <<>>
                   /\ curve_log' = <<>>
                   /\ fail_log' = 0
                   /\ attempts' = 0
                   /\ total_cycles' = TotalCycles(p.cycles)
                   /\ progress' = IF TotalCycles(p.cycles) # None THEN 0 ELSE progress
                   /\ pc' = "start"
                   /\ status' = "Running"
                   /\ queue' = <<>>
                   /\ stop_at' = None
                   /\ last_req' = "start"
                   /\ latest_eta' = IF TotalCycles(p.cycles) # None THEN EtaUnknown
                                                                     ELSE EtaUnbounded
                   /\ wl' = None /\ polls' = 0 /\ att_success' = FALSE
                   /\ active_started' = FALSE /\ comp_sent' = FALSE /\ ended' = "none"
                   /\ phase' = "random" /\ wls' = <<>> /\ idx' = 0
                   /\ conn_lost' = FALSE
                   /\ UNCHANGED <<device_range, requested>>
    /\ UNCHANGED probeVars

\* Variant of OnStop without the test of the worker.
OnStop_Unguarded ==
    /\ aborted' = TRUE
    /\ running' = FALSE
    /\ status' = IdleStatus
    /\ needs_reset_next_start' = TRUE
    /\ stop_at' = IF stop_at = None THEN Len(test_results) ELSE stop_at
    /\ last_req' = IF IsRunning THEN "stop" ELSE "stop_noop"
    /\ latest_eta' = EtaUnknown
    /\ UNCHANGED <<configVars, has_worker, success_count, fail_count, statVars, is_test_completed,
                   total_cycles, progress, workerFields, runVars, attemptVars,
                   curveVars, pc, conn_lost, queue>>
    /\ UNCHANGED probeVars

\* ChannelPanel.on_stop
OnStop ==
    /\ IF ~IsRunning
       THEN last_req' = "stop_noop" /\ UNCHANGED programVars
       ELSE /\ aborted' = TRUE
            /\ running' = FALSE
            /\ status' = IdleStatus
            /\ needs_reset_next_start' = TRUE
            /\ stop_at' = IF stop_at = None THEN Len(test_results) ELSE stop_at
            /\ last_req' = "stop"
            /\ latest_eta' = EtaUnknown
            /\ UNCHANGED <<configVars, has_worker, success_count, fail_count, statVars, is_test_completed,
                           total_cycles, progress, workerFields, runVars, attemptVars,
                           curveVars, pc, conn_lost, queue>>
    /\ UNCHANGED probeVars

\* ChannelPanel.on_reset
OnReset ==
    /\ IF IsRunning
       THEN aborted' = TRUE /\ running' = FALSE
       ELSE UNCHANGED <<aborted, running>>
    /\ ClearStatistics
    /\ needs_reset_next_start' = FALSE
    /\ status' = IdleStatus
    /\ stop_at' = IF stop_at = None /\ has_worker THEN Len(test_results) ELSE stop_at
    /\ last_req' = "reset"
    /\ latest_eta' = EtaUnknown
    /\ UNCHANGED <<configVars, has_worker, total_cycles, progress, workerFields, runVars,
                   attemptVars, curveVars, pc, conn_lost, queue>>
    /\ UNCHANGED probeVars

\* ChannelPanel._finalize_complete (called with aborted false)
FinalizeComplete ==
    /\ status' = "Completed"
    /\ is_test_completed' = TRUE
    /\ latest_eta' = EtaZero
    /\ needs_reset_next_start' = TRUE

\* on_result: the labels after the counters have been updated
ShowStatistics ==
    /\ avg_label' = Average(total_time', success_count', success_count' + fail_count')
    /\ rate_label' = Rate(success_count', success_count' + fail_count')
    /\ latest_eta' = UpdateEta(total_cycles, success_count', fail_count', dur_sum',
                               WaitTime)

\* Variant of OnResult that counts a failed outcome in both counters.
OnResult_DoubleCount(sig) ==
    /\ IF aborted
       THEN UNCHANGED <<success_count, fail_count, statVars, latest_eta>>
       ELSE /\ IF sig.success
               THEN /\ success_count' = success_count + 1
                    /\ total_time' = total_time + sig.duration
                    /\ dur_sum' = dur_sum + sig.duration
                    /\ UNCHANGED fail_count
               ELSE /\ fail_count' = fail_count + 1
                    /\ success_count' = success_count + 1
                    /\ dur_sum' = dur_sum + sig.duration
                    /\ UNCHANGED total_time
            /\ ShowStatistics
    /\ UNCHANGED <<status, is_test_completed, needs_reset_next_start, progress>>

\* ChannelPanel.on_result
OnResult(sig) ==
    /\ IF aborted
       THEN UNCHANGED <<success_count, fail_count, statVars, latest_eta>>
       ELSE /\ IF sig.success
               THEN /\ success_count' = success_count + 1
                    /\ total_time' = total_time + sig.duration
                    /\ dur_sum' = dur_sum + sig.duration
                    /\ UNCHANGED fail_count
               ELSE /\ fail_count' = fail_count + 1
                    /\ dur_sum' = dur_sum + sig.duration
                    /\ UNCHANGED <<success_count, total_time>>
            /\ ShowStatistics
    /\ UNCHANGED <<status, is_test_completed, needs_reset_next_start, progress>>

\* ChannelPanel.on_progress
OnProgress(sig) ==
    /\ progress' = IF ~aborted /\ sig.total > 0 THEN sig.current ELSE progress
    /\ UNCHANGED <<success_count, fail_count, statVars, latest_eta, status,
                   is_test_completed, needs_reset_next_start>>

\* ChannelPanel.on_worker_finished
OnWorkerFinished ==
    /\ IF aborted
       THEN UNCHANGED <<status, is_test_completed, needs_reset_next_start, latest_eta>>
       ELSE IF params.measure_power_curve
            THEN /\ status' = "Power Curve"
                 /\ UNCHANGED <<is_test_completed, needs_reset_next_start, latest_eta>>
            ELSE FinalizeComplete
    /\ UNCHANGED <<success_count, fail_count, statVars, progress>>

\* ChannelPanel.on_power_curve_finished
OnPowerCurveFinished(sig) ==
    /\ IF aborted
       THEN UNCHANGED <<status, is_test_completed, needs_reset_next_start, latest_eta>>
       ELSE FinalizeComplete
    /\ UNCHANGED <<success_count, fail_count, statVars, progress>>

\* The GUI event loop delivers the oldest queued signal to its slot.
Deliver ==
    /\ queue # <<>>
    /\ LET sig == Head(queue)
       IN  CASE sig.type = "update_status" -> OnResult(sig)
             [] sig.type = "progress_update" -> OnProgress(sig)
             [] sig.type = "finished" -> OnWorkerFinished
             [] sig.type = "power_curve_finished" -> OnPowerCurveFinished(sig)
    /\ queue' = Tail(queue)
    /\ UNCHANGED <<configVars, has_worker, aborted, total_cycles, workerFields, runVars,
                   attemptVars, curveVars, running, pc, conn_lost, stop_at, last_req>>
    /\ UNCHANGED probeVars

----------------------------------------------------------------------------
\* TestWorker (worker thread)

\* Variant of LoopCondition that is off by one in the cycle budget.
LoopCondition_Inclusive(r, c, a) == r /\ (c = None \/ a <= c)

\* TestWorker.run: the condition of the while loop
LoopCondition(r, c, a) == r /\ (c = None \/ a < c)

\* Variant of CurveCondition without the test of self.running.
CurveCondition_IgnoringStop(m, r, lo) == m /\ lo # None

\* TestWorker.run: the condition under which _measure_power_curve is called
CurveCondition(m, r, lo) == m /\ r /\ lo # None

\* Variant of ActivationFailed that falls through to the completion loop.
ActivationFailed_Never(started) == FALSE

\* _perform_wavelength_attempt: "if not active_started: return False, ..."
ActivationFailed(started) == ~started

\* Where _perform_wavelength_attempt returns to: run or _measure_power_curve
ReturnPc(ph) == IF ph = "random" THEN "record" ELSE "sample"

\* self.cycles or 0
CyclesOrZero(c) == IF c = None THEN 0 ELSE c

panelSide == <<configVars, panelVars, statVars, latest_eta, stop_at, last_req>>

\* TestWorker.run up to the while loop
RunBegin ==
    /\ has_worker /\ pc = "start"
    /\ fail_log' = 0
    /\ running' = TRUE
    /\ attempts' = 0
    /\ test_results' = <<>>
    /\ IF range_min = None \/ range_max = None
       THEN queue' = Append(queue, Finished) /\ pc' = "done"
       ELSE queue' = queue /\ pc' = "loop"
    /\ conn_lost' = FALSE
    /\ UNCHANGED <<panelSide, workerFields, power_curve_data, curve_log, attemptVars,
                   curveVars>>
    /\ UNCHANGED probeVars

\* The test of the while loop.  An unbounded run is followed for MaxCycles attempts.
LoopTop ==
    /\ pc = "loop"
    /\ IF LoopCondition(running, cycles, attempts)
       THEN (cycles = None => attempts < MaxCycles) /\ pc' = "check"
       ELSE pc' = "after"
    /\ conn_lost' = FALSE
    /\ UNCHANGED <<panelSide, workerFields, runVars, attemptVars, curveVars, running, queue>>
    /\ UNCHANGED probeVars

\* Variant of CheckUnreachable that counts the unreachable device as a failed attempt.
CheckUnreachable_Counted ==
    /\ conn_lost' = TRUE
    /\ pc' = "loop"
    /\ attempts' = attempts + 1
    /\ test_results' = Append(test_results, [wl_success |-> FALSE])
    /\ UNCHANGED <<fail_log, power_curve_data, curve_log, wl, queue>>

\* TestWorker.run: check_connection failed: connection_lost, the pause, continue
CheckUnreachable ==
    /\ conn_lost' = TRUE
    /\ pc' = "loop"
    /\ UNCHANGED <<runVars, wl, queue>>

\* The pre-cycle check_connection and, when it passes, the draw of the wavelength
CheckConnection ==
    /\ pc = "check"
    /\ \E reachable \in BOOLEAN :
          IF ~reachable
          THEN CheckUnreachable
          ELSE /\ \E x \in Draws(range_min, range_max) :
                      wl' = Clamp(Round1(x), device_min, device_max)
               /\ conn_lost' = FALSE
               /\ pc' = "put"
               /\ UNCHANGED <<runVars, queue>>
    /\ UNCHANGED <<panelSide, workerFields, polls, att_success, active_started,
                   comp_sent, ended, curveVars, running>>
    /\ UNCHANGED probeVars

\* Variant of AfterPut that sends the command again when it got no response.
AfterPut_Retry(resp, ph) == IF resp = "none" THEN "put" ELSE "act"

\* _perform_wavelength_attempt: where the answer to the command leads
AfterPut(resp, ph) == IF resp = "none" THEN ReturnPc(ph) ELSE "act"

\* _perform_wavelength_attempt: the set-wavelength command
AttemptPut ==
    /\ pc = "put"
    /\ \E resp \in PutResponses :
          /\ conn_lost' = (resp = "none")
          /\ pc' = AfterPut(resp, phase)
          /\ ended' = IF resp = "none" THEN "put" ELSE "none"
    /\ polls' = 0
    /\ att_success' = FALSE
    /\ active_started' = FALSE
    /\ comp_sent' = FALSE
    /\ UNCHANGED <<panelSide, workerFields, runVars, wl, curveVars, running, queue>>
    /\ UNCHANGED probeVars

\* Variant of NextPoll in which a poll without response is not counted.
NextPoll_LostFree(n, answered) == IF answered THEN n + 1 ELSE n

\* _perform_wavelength_attempt: "for _ in range(10)" moves on with every
\* iteration, also with the one that ends in "continue" after a lost poll.
NextPoll(n, answered) == n + 1

\* _perform_wavelength_attempt: leaving the activation loop with active_started as
\* given, for the reason given: return failure, or go on to the completion loop.
\* The loop counter is dead from here on.
AfterActivation(started, why) ==
    /\ polls' = 0
    /\ pc' = IF ActivationFailed(started) THEN ReturnPc(phase) ELSE "comp"
    /\ ended' = IF ActivationFailed(started) THEN why ELSE "none"

\* One iteration of the activation loop
ActivationPoll ==
    /\ pc = "act"
    /\ IF ~running
       THEN /\ AfterActivation(active_started, "act_stop")
            /\ conn_lost' = FALSE
            /\ UNCHANGED active_started
       ELSE \E st \in StatusResponses :
               /\ conn_lost' = ~st.answered
               /\ IF st.answered /\ st.active = "true"
                  THEN /\ active_started' = TRUE
                       /\ AfterActivation(TRUE, "none")
                  ELSE /\ active_started' = active_started
                       /\ IF NextPoll(polls, st.answered) < ActivationPolls
                          THEN /\ polls' = NextPoll(polls, st.answered)
                               /\ pc' = "act"
                               /\ ended' = ended
                          ELSE AfterActivation(active_started, "act_budget")
    /\ att_success' = FALSE
    /\ UNCHANGED <<panelSide, workerFields, runVars, wl, comp_sent, curveVars, running, queue>>
    /\ UNCHANGED probeVars

\* Variant of SettleSuccess that takes every cleared flag for a success.
SettleSuccess_AnyCleared(state) == TRUE

\* _perform_wavelength_attempt: success of a poll that reports the flag cleared
SettleSuccess(state) == state = "Success"

\* Variant of NextCompletionPoll in which a poll without response is not counted.
NextCompletionPoll_LostFree(n, answered) == IF answered THEN n + 1 ELSE n

\* for _ in range(120): the iterations done after this one; "continue" after a
\* lost poll moves to the next iteration like any other.
NextCompletionPoll(n, answered) == n + 1

\* One iteration of the completion loop
CompletionPoll ==
    /\ pc = "comp"
    /\ IF ~running
       THEN /\ pc' = ReturnPc(phase)
            /\ ended' = "comp_stop"
            /\ polls' = 0
            /\ conn_lost' = FALSE
            /\ UNCHANGED <<att_success, comp_sent>>
       ELSE \E st \in StatusResponses :
               /\ comp_sent' = TRUE
               /\ conn_lost' = ~st.answered
               /\ IF st.answered /\ st.active = "false"
                  THEN /\ att_success' = SettleSuccess(st.state)
                       /\ ended' = st.state
                       /\ polls' = 0
                       /\ pc' = ReturnPc(phase)
                  ELSE /\ att_success' = FALSE
                       /\ IF NextCompletionPoll(polls, st.answered) < CompletionPolls
                          THEN /\ polls' = NextCompletionPoll(polls, st.answered)
                               /\ pc' = "comp"
                               /\ ended' = ended
                          ELSE polls' = 0 /\ pc' = ReturnPc(phase) /\ ended' = "comp_budget"
    /\ UNCHANGED <<panelSide, workerFields, runVars, wl, active_started, curveVars,
                   running, queue>>
    /\ UNCHANGED probeVars

\* Variant of Logged that writes a line for every outcome.
Logged_Always(success) == TRUE

\* TestWorker.run: if not success, before the line is appended to the failure log
Logged(success) == ~success

\* TestWorker.run: the attempt is counted, recorded and emitted
Record ==
    /\ pc = "record"
    /\ attempts' = attempts + 1
    /\ test_results' = Append(test_results, [wl_success |-> att_success])
    /\ \E d \in Durations :
          queue' = queue \o <<UpdateStatus(att_success, d),
                               ProgressUpdate(attempts + 1, CyclesOrZero(cycles))>>
    /\ pc' = IF Logged(att_success) THEN "log" ELSE "sleep"
    /\ polls' = 0 /\ att_success' = FALSE /\ active_started' = FALSE /\ comp_sent' = FALSE
    /\ ended' = "none"
    /\ conn_lost' = FALSE
    /\ UNCHANGED <<panelSide, workerFields, fail_log, power_curve_data, curve_log, wl,
                   curveVars, running>>
    /\ UNCHANGED probeVars

\* TestWorker.run: the line appended to the failure log
LogFailure ==
    /\ pc = "log"
    /\ fail_log' = fail_log + 1
    /\ pc' = "sleep"
    /\ conn_lost' = FALSE
    /\ UNCHANGED <<panelSide, workerFields, attempts, test_results, power_curve_data, curve_log,
                   attemptVars, curveVars, running, queue>>
    /\ UNCHANGED probeVars

\* TestWorker.run: time.sleep(self.wait_time + 3), then back to the while test
Sleep ==
    /\ pc = "sleep"
    /\ pc' = "loop"
    /\ wl' = None
    /\ conn_lost' = FALSE
    /\ UNCHANGED <<panelSide, workerFields, runVars, polls, att_success, active_started,
                   comp_sent, ended, curveVars, running, queue>>
    /\ UNCHANGED probeVars

\* TestWorker.run after the while loop, and the start of _measure_power_curve
AfterLoop ==
    /\ pc = "after"
    /\ IF CurveCondition(measure_power_curve, running, range_min)
       THEN /\ power_curve_data' = <<>>
            /\ curve_log' = <<>>
            /\ wls' = SamplePoints(range_min, range_max)
            /\ idx' = 1
            /\ phase' = "curve"
            /\ pc' = "curve"
            /\ queue' = queue
       ELSE /\ queue' = Append(queue, Finished)
            /\ pc' = "done"
            /\ UNCHANGED <<power_curve_data, curve_log, curveVars>>
    /\ conn_lost' = FALSE
    /\ UNCHANGED <<panelSide, workerFields, attempts, test_results, fail_log, attemptVars,
                   running>>
    /\ UNCHANGED probeVars

\* The end of _measure_power_curve and of run: power_curve_finished, then finished
CurveEnd ==
    /\ queue' = queue \o <<PowerCurveFinished(power_curve_data), Finished>>
    /\ pc' = "done"

\* _measure_power_curve: the head of the for loop and the first check_connection
CurveNext ==
    /\ pc = "curve"
    /\ IF idx > Len(wls) \/ ~running
       THEN CurveEnd /\ conn_lost' = FALSE /\ UNCHANGED wl
       ELSE \E reachable \in BOOLEAN :
               IF reachable
               THEN /\ wl' = Clamp(wls[idx], device_min, device_max)
                    /\ pc' = "put"
                    /\ conn_lost' = FALSE
                    /\ queue' = queue
               ELSE /\ conn_lost' = TRUE
                    /\ pc' = "curve_retry"
                    /\ UNCHANGED <<wl, queue>>
    /\ UNCHANGED <<panelSide, workerFields, runVars, polls, att_success, active_started,
                   comp_sent, ended, curveVars, running>>
    /\ UNCHANGED probeVars

\* _measure_power_curve: the second check_connection, after the 2 s pause
CurveRetry ==
    /\ pc = "curve_retry"
    /\ \E reachable \in BOOLEAN :
          IF reachable
          THEN /\ wl' = Clamp(wls[idx], device_min, device_max)
               /\ pc' = "put"
               /\ queue' = queue
          ELSE CurveEnd /\ UNCHANGED wl
    /\ conn_lost' = FALSE
    /\ UNCHANGED <<panelSide, workerFields, runVars, polls, att_success, active_started,
                   comp_sent, ended, curveVars, running>>
    /\ UNCHANGED probeVars

\* _measure_power_curve: an entry of power_curve_data
PowerSample(w, p) == [wavelength |-> w, power |-> p]

\* Variant of SampleRecorded that records a sample whatever the power query gave.
SampleRecorded_Always(p) == TRUE

\* _measure_power_curve: if p and p.get("OK")
SampleRecorded(p) == p # None

\* _measure_power_curve: after the attempt, the power query of a successful point
CurveSample ==
    /\ pc = "sample"
    /\ IF att_success
       THEN \E p \in PowerResponses :
               /\ power_curve_data' = IF SampleRecorded(p)
                                      THEN Append(power_curve_data, PowerSample(wl, p))
                                      ELSE power_curve_data
               /\ curve_log' = Append(curve_log, [wavelength |-> wl, success |-> TRUE,
                                                  power |-> p])
       ELSE /\ curve_log' = Append(curve_log, [wavelength |-> wl, success |-> FALSE,
                                               power |-> None])
            /\ UNCHANGED power_curve_data
    /\ idx' = idx + 1
    /\ pc' = "curve"
    /\ polls' = 0 /\ att_success' = FALSE /\ active_started' = FALSE
    /\ comp_sent' = FALSE
    /\ ended' = "none"
    /\ conn_lost' = FALSE
    /\ UNCHANGED <<panelSide, workerFields, attempts, test_results, fail_log, wl, phase, wls,
                   running, queue>>
    /\ UNCHANGED probeVars

----------------------------------------------------------------------------
Next ==
    \/ OnStart
    \/ OnStop
    \/ OnReset
    \/ Deliver
    \/ RunBegin
    \/ LoopTop
    \/ CheckConnection
    \/ AttemptPut
    \/ ActivationPoll
    \/ CompletionPoll
    \/ Record
    \/ LogFailure
    \/ Sleep
    \/ AfterLoop
    \/ CurveNext
    \/ CurveRetry
    \/ CurveSample

Spec == Init /\ [][Next]_vars

----------------------------------------------------------------------------
\* Connectivity probe (StatusWorker)

\* Variant of QueryMode that asks for the mode whatever the status was.
QueryMode_Always(c) == TRUE

\* run: if connected
QueryMode(c) == c

\* run: status_response is not None and status_response.get("OK", False)
Connected(r) == r.kind = "object" /\ r.ok = "true"

\* run: while self.running
ProbeLoop ==
    /\ probe_pc = "loop"
    /\ ~probe_running \/ ticks < MaxTicks
    /\ IF probe_running
       THEN probe_pc' = "status" /\ ticks' = ticks + 1
       ELSE probe_pc' = "done" /\ UNCHANGED ticks
    /\ UNCHANGED <<probe_running, status_response, connected, mode, published>>
    /\ UNCHANGED <<programVars, last_req>>

\* run: the status query.  .get on a value that is not an object raises, which
\* the except clause catches.
ProbeStatus ==
    /\ probe_pc = "status"
    /\ \E r \in ProbeAnswers :
          /\ status_response' = r
          /\ IF r.kind = "not_object"
             THEN probe_pc' = "except" /\ UNCHANGED <<connected, mode>>
             ELSE /\ connected' = Connected(r)
                  /\ mode' = "Unknown"
                  /\ probe_pc' = IF QueryMode(Connected(r)) THEN "mode" ELSE "emit"
    /\ UNCHANGED <<probe_running, published, ticks>>
    /\ UNCHANGED <<programVars, last_req>>

\* run: the mode query
ProbeMode ==
    /\ probe_pc = "mode"
    /\ \E r \in ProbeAnswers :
          IF r.kind = "not_object"
          THEN probe_pc' = "except" /\ UNCHANGED mode
          ELSE /\ mode' = IF r.kind = "object" /\ r.ok = "true"
                          THEN (IF r.mode = "absent" THEN "Unknown" ELSE r.mode)
                          ELSE mode
               /\ probe_pc' = "emit"
    /\ UNCHANGED <<probe_running, status_response, connected, published, ticks>>
    /\ UNCHANGED <<programVars, last_req>>

\* run: self.status_update.emit(connected, mode); a mode that is not a string is
\* refused by the (bool, str) signal with an exception.
ProbeEmit ==
    /\ probe_pc = "emit"
    /\ IF mode = "not_string"
       THEN probe_pc' = "except" /\ UNCHANGED published
       ELSE probe_pc' = "sleep" /\ published' = Append(published, <<connected, mode>>)
    /\ UNCHANGED <<probe_running, status_response, connected, mode, ticks>>
    /\ UNCHANGED <<programVars, last_req>>

\* run: except: self.status_update.emit(False, "Unknown")
ProbeExcept ==
    /\ probe_pc = "except"
    /\ published' = Append(published, <<FALSE, "Unknown">>)
    /\ probe_pc' = "sleep"
    /\ UNCHANGED <<probe_running, status_response, connected, mode, ticks>>
    /\ UNCHANGED <<programVars, last_req>>

\* run: time.sleep(3)
ProbeSleep ==
    /\ probe_pc = "sleep"
    /\ probe_pc' = "loop"
    /\ UNCHANGED <<probe_running, status_response, connected, mode, published, ticks>>
    /\ UNCHANGED <<programVars, last_req>>

\* StatusWorker.stop, called by MainWindow.closeEvent
ProbeStop ==
    /\ probe_running
    /\ probe_running' = FALSE
    /\ UNCHANGED <<probe_pc, status_response, connected, mode, published, ticks>>
    /\ UNCHANGED <<programVars, last_req>>

ProbeNext ==
    \/ ProbeLoop
    \/ ProbeStatus
    \/ ProbeMode
    \/ ProbeEmit
    \/ ProbeExcept
    \/ ProbeSleep
    \/ ProbeStop

ProbeSpec == Init /\ [][ProbeNext]_vars

----------------------------------------------------------------------------
\* Properties

\* The worker has left the random-wavelength loop.
PastLoop == has_worker /\ (pc \in {"after", "done"} \/ phase = "curve")

\* The attempt has returned to its caller.
Returned == pc \in {"record", "sample"}

\* update_status signals emitted and not yet delivered
PendingOutcomes == Cardinality({k \in 1..Len(queue) : queue[k].type = "update_status"})

\* The iteration budget of the polling loop the worker is in
Budget(at) == IF at = "act" THEN ActivationPolls ELSE CompletionPolls

\* C1: a run with a finite cycle budget N, for which no stop or reset was requested,
\* has recorded and emitted exactly N outcomes once it has left the random-wavelength
\* loop, and never more than N before.
C1_ExactlyNOutcomes ==
    (has_worker /\ cycles # None) =>
        /\ attempts = Len(test_results)
        /\ Len(test_results) <= cycles
        /\ (PastLoop /\ stop_at = None) =>
              /\ Len(test_results) = cycles
              /\ success_count + fail_count + PendingOutcomes = cycles

C1_Witness ==
    /\ has_worker /\ pc = "done" /\ stop_at = None
    /\ cycles = MaxCycles /\ Len(test_results) = MaxCycles
    /\ \E j, k \in 1..Len(test_results) : test_results[j].wl_success /\ ~test_results[k].wl_success

\* C2: every wavelength sent to the device with the set-wavelength command, in the
\* random-wavelength loop and in the power-curve phase, lies within
\* [device_min, device_max].
C2_DispatchedWithinDeviceRange ==
    pc = "put" => (device_min <= wl /\ wl <= device_max)

C2_Witness ==
    /\ pc = "put" /\ phase = "curve"
    /\ wls[idx] < device_min /\ wl = device_min

\* The worker takes a step in which its request to the device gets no response.
NoAnswer == <<pc, polls, conn_lost>>' # <<pc, polls, conn_lost>> /\ conn_lost'

\* C3 as claimed: a request that got no response never ends an attempt that is
\* then recorded with success = false.
C3_LossNeverRecordedAsFailure ==
    ~(pc = "record" /\ conn_lost /\ ~att_success)

\* C3 as amended: a failed pre-cycle check is signalled and retried with nothing
\* recorded; a lost set-wavelength command ends the attempt with failure; a lost
\* status poll is signalled and uses up one iteration of its loop, ending the
\* attempt with failure when it was the last of the budget; and what the attempt
\* returned is recorded.
C3_LossCountedOnlyInsideAttempt ==
    [][ /\ (pc = "check" /\ NoAnswer) =>
              (pc' = "loop" /\ UNCHANGED <<attempts, test_results, fail_log, queue>>)
        /\ (pc = "put" /\ NoAnswer) =>
              (pc' = ReturnPc(phase) /\ ~att_success')
        /\ (pc \in {"act", "comp"} /\ NoAnswer) =>
              /\ ~att_success'
              /\ IF polls + 1 < Budget(pc)
                 THEN polls' = polls + 1 /\ pc' = pc
                 ELSE pc' = ReturnPc(phase)
        /\ (pc = "record" /\ pc' # "record") =>
              test_results' = Append(test_results, [wl_success |-> att_success])
      ]_vars

C3_Witness ==
    /\ pc = "record" /\ phase = "random" /\ conn_lost
    /\ ended = "put" /\ ~active_started /\ ~att_success /\ ~aborted

\* C4: a failed pre-cycle reachability check signals connection-lost and goes back
\* to the test of the while loop, leaving the attempt counter, the outcome list,
\* the failure log, the emitted signals and the progress shown unchanged.
C4_FailedCheckChangesNothing ==
    [][ (pc = "check" /\ pc' = "loop") =>
            /\ conn_lost'
            /\ UNCHANGED <<attempts, test_results, fail_log, queue, progress,
                           success_count, fail_count>>
      ]_vars

C4_Witness ==
    /\ pc = "loop" /\ conn_lost /\ running
    /\ attempts = 1 /\ Len(test_results) = 1

\* C5 as claimed: once a stop has been requested, the worker does not pass the test
\* of its while loop again.
C5_StopAlwaysObserved ==
    [][ (aborted /\ pc = "loop") => pc' # "check" ]_vars

\* C6 as claimed: a run with an unbounded cycle count leaves the random-wavelength
\* loop only after a stop request, and records at most one outcome after it.
C6_UnboundedUntilStop ==
    (has_worker /\ cycles = None) =>
        /\ PastLoop => stop_at # None
        /\ stop_at # None => Len(test_results) <= stop_at + 1

C8_NaturalFinishCompleted ==
    (has_worker /\ pc = "done" /\ queue = <<>> /\ stop_at = None
        /\ cycles # None /\ attempts = cycles) =>
        status = "Completed"

\* C9 as claimed: the power-curve phase is entered only with measure_power_curve
\* set, the cycle budget used up and no stop requested.
C9_CurveOnlyAfterFullBudget ==
    [][ (phase = "random" /\ phase' = "curve") =>
            (measure_power_curve /\ ~aborted /\ cycles # None /\ attempts = cycles)
      ]_vars

\* C10: an attempt in which no activation poll reported the setting active returns
\* failure, and no completion-phase poll is sent without the activation seen.
C10_NoActivationNoCompletion ==
    /\ comp_sent => active_started
    /\ (Returned /\ ~active_started) => (~att_success /\ ~comp_sent)

C10_Witness ==
    /\ pc = "record" /\ ~active_started /\ ended = "act_budget"
    /\ ~conn_lost /\ running

\* C11: an attempt that has seen the activation returns success exactly when a
\* completion poll reported the flag cleared with the state "Success"; a flag
\* cleared with another state, and a completion loop left without the flag
\* cleared (its 120 iterations used up, or the run stopped), return failure.
C11_SuccessIffSettledSuccess ==
    /\ (Returned /\ active_started) =>
          /\ att_success <=> (ended = "Success")
          /\ ended \in {"Success", "Failed", "absent", "comp_budget", "comp_stop"}
    /\ (pc = "comp" /\ polls > 0) => (active_started /\ ~att_success)

C11_Witness ==
    /\ pc = "record" /\ active_started /\ att_success
    /\ ended = "Success" /\ running /\ attempts = 1

\* The device range is known.
KnownRange(dr) == dr[1] # None /\ dr[2] # None

\* C12: for every requested interval and every known device range, the test range
\* resolved at initialisation, at start and by the worker lies within the device
\* range.
C12_ResolvedWithinDevice ==
    /\ KnownRange(device_range) =>
          (device_range[1] <= params.test_min /\ params.test_max <= device_range[2])
    /\ has_worker =>
          /\ <<device_min, device_max>> = device_range
          /\ device_min <= range_min /\ range_max <= device_max

C12_Witness ==
    /\ has_worker /\ pc = "put"
    /\ requested[1] # None /\ requested[1] < device_min
    /\ requested[2] > device_max
    /\ range_min = device_min /\ range_max = device_max

\* Clamping the requested interval into the device range gives min >= max.
Degenerate(req, dr) ==
    /\ req[1] # None /\ req[2] # None
    /\ Max(req[1], dr[1]) >= Min(req[2], dr[2])

\* C13: when the requested interval clamped into the device range is degenerate,
\* the resolved range is the device range itself, and the run starts and draws
\* its wavelengths from it.
C13_DegenerateFallsBackToDevice ==
    (KnownRange(device_range) /\ Degenerate(requested, device_range)) =>
        /\ <<params.test_min, params.test_max>> = device_range
        /\ has_worker => <<range_min, range_max>> = device_range

C13_Witness ==
    /\ has_worker /\ pc = "put" /\ Degenerate(requested, device_range)
    /\ <<range_min, range_max>> = device_range
    /\ wl = device_max

\* C14: a worker is started only when the channel has no worker or its worker has
\* ended: never while the previous worker is still running, a stopped worker
\* finishing its cycle in flight included.
C14_OneRunPerChannel ==
    [][ (pc' = "start" /\ pc # "start") => ~(has_worker /\ pc # "done") ]_vars

C14_Witness ==
    /\ last_req = "stop" /\ has_worker /\ pc = "comp" /\ polls > 0
    /\ aborted /\ ~running /\ status = "Standby"

\* C15: a stop request on a channel without a running worker changes nothing: the
\* run flag, the status, the statistics, the aborted flag and all the rest of the
\* channel and of its ended worker stay as they are.
C15_StopAfterEndChangesNothing ==
    [][ (last_req' \in {"stop", "stop_noop"} /\ last_req' # last_req
            /\ ~(has_worker /\ pc # "done")) =>
            UNCHANGED programVars
      ]_vars

C15_Witness ==
    /\ last_req = "stop_noop" /\ has_worker /\ pc = "done" /\ queue = <<>>
    /\ status = "Completed" /\ ~aborted /\ success_count + fail_count = MaxCycles

C18_NarrowSpanSamplesMidpoint ==
    (phase = "curve" /\ range_max - range_min < CurveSpan * Nm) =>
        /\ Len(wls) = 1
        /\ \E m \in 0..(range_max \div Nm) :
              /\ wls[1] = m * Nm
              /\ 2 * m * Nm <= range_min + range_max
              /\ range_min + range_max < 2 * (m + 1) * Nm
        /\ pc \in {"put", "act", "comp", "sample"} =>
              (idx = 1 /\ wl = Clamp(wls[1], device_min, device_max))
        /\ idx \in {1, 2}

C18_Witness ==
    /\ phase = "curve" /\ pc = "sample" /\ att_success
    /\ range_max - range_min < CurveSpan * Nm
    /\ 2 * wl < range_min + range_max /\ wls = <<wl>>

\* C20 as claimed: an activation poll that gets no response leaves the number of
\* activation iterations used as it is, and the attempt goes on polling.
C20_LostPollKeepsActivationBudget ==
    [][ (pc = "act" /\ NoAnswer) => (polls' = polls /\ pc' = "act") ]_vars

\* C20 as amended: an activation poll that gets no response uses up one of the 10
\* activation iterations like an answered one, and ends the attempt when it was
\* the last; the attempt passes activation only on a poll among its first 10,
\* lost ones counted, that reports the setting active.
C20_LostPollUsesActivationBudget ==
    [][ /\ (pc = "act" /\ NoAnswer) =>
              /\ ~active_started'
              /\ IF polls + 1 < ActivationPolls
                 THEN polls' = polls + 1 /\ pc' = "act"
                 ELSE pc' = ReturnPc(phase) /\ ended' = "act_budget"
        /\ (pc = "act" /\ pc' = "comp") =>
              (polls < ActivationPolls /\ active_started' /\ ~conn_lost')
      ]_vars

C20_Witness ==
    /\ pc = "record" /\ ~active_started /\ ended = "act_budget"
    /\ conn_lost /\ running /\ ~comp_sent /\ ~att_success

\* C19: the success rate and the average duration shown are always defined: no
\* division by zero occurs, the rate is 0 while no attempt is counted and the
\* average is 0 while no success is counted, whatever outcomes, resets and
\* restarts came before.
C19_RateAndAverageDefined ==
    /\ rate_label.defined /\ avg_label.defined
    /\ success_count + fail_count = 0 => rate_label.value = 0
    /\ success_count = 0 => (avg_label.value = 0 /\ total_time = 0)

C19_Witness ==
    /\ success_count = 0 /\ fail_count = MaxCycles /\ ~aborted
    /\ avg_label = Shown(0) /\ rate_label = Shown(0) /\ queue = <<>>

\* C16: whatever the device answers to the status and mode queries, each
\* iteration of the status loop emits exactly one (connected, mode) tuple, the
\* tuple is (FALSE, "Unknown") whenever the status query got no usable answer or
\* an answer that is not OK, and the loop is left only after stop was called.
C16_OneTuplePerTick ==
    /\ probe_pc \in {"loop", "sleep", "done"} => Len(published) = ticks
    /\ probe_pc \in {"status", "mode", "emit", "except"} => Len(published) = ticks - 1
    /\ (probe_pc = "sleep" /\ ~Connected(status_response)) =>
          published[ticks] = <<FALSE, "Unknown">>
    /\ probe_pc = "done" => ~probe_running

C16_Witness ==
    /\ probe_pc = "sleep" /\ ticks = Len(published) /\ probe_running
    /\ published = << <<FALSE, "Unknown">>, <<FALSE, "Unknown">>, <<TRUE, "Tunable">> >>
    /\ Connected(status_response)

\* C21 as claimed: when a stop was requested during the cycle, the attempt once
\* recorded is not followed by the sleep of wait_time + 3 seconds.
C21_SleepSkippedOnStop ==
    [][ (pc \in {"record", "log"} /\ ~running) => pc' # "sleep" ]_vars

\* C22 as claimed: the power-curve phase ends only after every sample point was
\* attempted or the run was stopped; a point at which the device stays unreachable
\* does not end it.
C22_UnreachablePointOnlySkipped ==
    [][ (phase = "curve" /\ pc # "done" /\ pc' = "done") =>
            (idx > Len(wls) \/ ~running) ]_vars

\* C23 as claimed: for a resolved interval of 10 nm or more the sample points are
\* floor(min), floor(min) + 10, ... and the last one is the exact upper bound of
\* the interval.
C23_LastPointIsUpperBound ==
    (phase = "curve" /\ range_max - range_min >= CurveSpan * Nm) =>
        /\ wls[1] = IntNm(range_min) * Nm
        /\ \A k \in 1..(Len(wls) - 2) : wls[k + 1] = wls[k] + CurveStep * Nm
        /\ wls[Len(wls)] = range_max

\* C24 as claimed: when the panel counts an outcome of a bounded run that has cycles
\* remaining, the ETA is unknown if no success has been counted, whatever the
\* number of failures, and otherwise remaining x (average duration of the
\* successes + wait_time + 3).
C24_EtaFromSuccessesOnly ==
    [][ ( /\ success_count' + fail_count' = success_count + fail_count + 1
          /\ total_cycles # None
          /\ total_cycles > success_count' + fail_count' ) =>
            IF success_count' = 0
            THEN latest_eta' = EtaUnknown
            ELSE latest_eta' = EtaTime(Estimate(total_cycles - (success_count' + fail_count'),
                                                total_time', success_count', WaitTime))
      ]_vars

\* The samples that the attempted sample points kept give
SamplesOf(kept) ==
    [k \in 1..Len(kept) |-> PowerSample(kept[k].wavelength, kept[k].power)]

\* C25 as claimed: the samples recorded in the power-curve phase are, in the order
\* of the sample points, one for each point whose attempt succeeded and none for
\* a point whose attempt failed.
C25_SampleIffSuccess ==
    phase = "curve" => power_curve_data = SamplesOf(SelectSeq(curve_log, LAMBDA e : e.success))

\* C25 as amended: the samples recorded are, in the order of the sample points,
\* one for each point whose attempt succeeded and whose power query gave a
\* reading; a point whose attempt failed is not queried and yields no sample, and
\* the points attempted are the sample points in their order.
C25_SampleIffSuccessAndReading ==
    phase = "curve" =>
        /\ power_curve_data =
              SamplesOf(SelectSeq(curve_log, LAMBDA e : e.success /\ e.power # None))
        /\ \A k \in 1..Len(curve_log) :
              /\ ~curve_log[k].success => curve_log[k].power = None
              /\ k < idx /\ curve_log[k].wavelength = Clamp(wls[k], device_min, device_max)

C25_Witness ==
    /\ phase = "curve" /\ pc = "curve" /\ Len(curve_log) = 3 /\ Len(power_curve_data) = 1
    /\ ~curve_log[1].success
    /\ curve_log[2].success /\ curve_log[2].power = None
    /\ curve_log[3].success /\ curve_log[3].power # None

\* C26 as claimed: when exactly one of the requested bounds is unset, it defaults
\* to its device bound and the resolved range keeps the other, set bound clamped
\* into the device range, in the configuration and in the worker started from it.
C26_OneSidedBoundHonoured ==
    LET dr == device_range
        lo == IF requested[1] = None THEN dr[1] ELSE Clamp(requested[1], dr[1], dr[2])
        hi == IF requested[2] = None THEN dr[2] ELSE Clamp(requested[2], dr[1], dr[2])
    IN  ( /\ KnownRange(dr)
          /\ (requested[1] = None) # (requested[2] = None)
          /\ lo < hi ) =>
            /\ <<params.test_min, params.test_max>> = <<lo, hi>>
            /\ has_worker => <<range_min, range_max>> = <<lo, hi>>

\* C27: the number of lines appended to the failure log of the run is the number
\* of recorded outcomes with success = false, the line of a failed outcome being
\* written right after the outcome is recorded (between the two the log is one
\* line short); a successful outcome appends nothing.
C27_FailLogCountsFailures ==
    LET failed == Cardinality({k \in 1..Len(test_results) : ~test_results[k].wl_success})
    IN  /\ fail_log = IF pc = "log" THEN failed - 1 ELSE failed
        /\ pc = "log" => ~test_results[Len(test_results)].wl_success

C27_Witness ==
    /\ pc = "sleep" /\ fail_log = 1 /\ Len(test_results) = 2
    /\ ~test_results[1].wl_success /\ test_results[2].wl_success

\* The worker thread on its own, with the panel starting and stopping it: the
\* signals it emits stay queued.
WorkerNext ==
    \/ OnStart
    \/ OnStop
    \/ RunBegin
    \/ LoopTop
    \/ CheckConnection
    \/ AttemptPut
    \/ ActivationPoll
    \/ CompletionPoll
    \/ Record
    \/ LogFailure
    \/ Sleep
    \/ AfterLoop
    \/ CurveNext
    \/ CurveRetry
    \/ CurveSample

\* The worker thread is scheduled: a step of the attempt that can be taken is
\* taken (every request to the device returns within its timeout).
WorkerSpec ==
    /\ Init /\ [][WorkerNext]_vars
    /\ WF_vars(AttemptPut) /\ WF_vars(ActivationPoll) /\ WF_vars(CompletionPoll)

C29_StopCreatesNoFailureRecord ==
    [][ (phase = "random" /\ pc = "record" /\ ended \in {"act_stop", "comp_stop"}) =>
            (test_results' = test_results /\ pc' # "log") ]_vars

\* C30: a run with an unbounded cycle count never enters the power-curve phase,
\* with measure_power_curve set or not: it leaves its loop only with self.running
\* false, which also skips the power curve, and power_curve_finished is never
\* emitted for it.
C30_UnboundedNeverMeasuresCurve ==
    (has_worker /\ cycles = None) =>
        /\ phase = "random"
        /\ pc \notin {"curve", "curve_retry", "sample"}
        /\ power_curve_data = <<>>
        /\ \A k \in 1..Len(queue) : queue[k].type # "power_curve_finished"
        /\ PastLoop => ~running

C30_Witness ==
    /\ has_worker /\ cycles = None /\ measure_power_curve
    /\ pc = "done" /\ ~running /\ stop_at # None /\ Len(test_results) > 0
    /\ queue # <<>> /\ queue[Len(queue)].type = "finished"

====
